---- MODULE Spec2Model ----
(***************************************************************************)
(* Tug-o-Chat game-state engine: the room registry and room life cycle of  *)
(* GameManager (backend/game_manager.py), the MatchmakingQueue             *)
(* (backend/matchmaking.py) and the websocket handlers of backend/main.py. *)
(*                                                                         *)
(* Scheduling.  Everything runs on one asyncio event loop, so a coroutine  *)
(* runs without interruption from one suspension point to the next.  Each  *)
(* action below is one such stretch.  "await f()" of a coroutine does not  *)
(* suspend by itself; asyncio.sleep and a websocket send do.  The queue    *)
(* lock (asyncio.Lock) is only ever held over code with no await, so it is *)
(* free at every suspension point and acquiring it never suspends.         *)
(*                                                                         *)
(* Time.  The clock counts units of 30 seconds.  Instead of datetime       *)
(* values the model keeps, for every timestamp, the time that has passed   *)
(* since it (now - timestamp), and for every sleep the time                *)
(* left.  Sleeps shorter than a unit (0.1 s, 1 s, 5 s) end inside a unit,  *)
(* at a moment the model leaves open.                                      *)
(*                                                                         *)
(* Numbers.  Floats are fixed point: pull power, engagement rate and rope  *)
(* position are integers counting 1/Scale.                                 *)
(***************************************************************************)
EXTENDS Integers, Sequences, FiniteSets, TLC

\* ------------------------------------------------------------------ bounds
NumSessions == 3      \* websocket session ids 1..NumSessions
NumUsers == 2         \* chat usernames 1..NumUsers
MaxViewers == 2       \* a stream has 0 or MaxViewers viewers
MaxRooms == 2         \* rooms that are ever created
MaxPulls == 2         \* pull events that are ever registered

(* A run is bounded in one of two ways: many sessions and rooms and no pull
   (the registry, the queue, the life cycle of several rooms), or one room of
   two sessions and MaxPulls pulls (the rope of a game).  Init picks one. *)
Scenarios ==
  { [sessions |-> NumSessions, rooms |-> MaxRooms, pulls |-> 0],
    [sessions |-> 2, rooms |-> 1, pulls |-> MaxPulls] }

\* --------------------------------------------------------------- constants
Scale == 40                  \* fixed point: 1.0 is Scale
window == 1                  \* timedelta(seconds=30)
grace == 1                   \* asyncio.sleep(30) in end_game
game_duration == 2           \* settings.game_duration, in time units
base_pull_strength == 1      \* settings.base_pull_strength = 1.0
win_threshold == 12          \* settings.win_threshold, fixed point (see below)

(* The settings are read from the environment (pydantic BaseSettings).  The
   model runs with game_duration = 60 s (default 120) and, since with at most
   NumUsers distinct pullers a side's pull power stays below
   NumUsers * log10(NumUsers + 1), with win_threshold = 0.3 (12/Scale, default
   100.0): a rope that reaches the threshold after a few ticks, both exactly
   and by overshooting. *)

NoSession == 0               \* Player.session_id = None
NoWinner == 0                \* GameRoom.winner_id = None
NoTime == -1                 \* a timestamp that is None
NoRoom == 0                  \* no room id

Sessions == 1..NumSessions
Users == 1..NumUsers
RoomIds == 1..MaxRooms

VARIABLES
  rooms,            \* GameManager.rooms: room id -> GameRoom
  session_to_room,  \* GameManager.session_to_room: session id -> room id
  next_room_id,     \* the next uuid4 of GameRoom.__init__
  queue,            \* MatchmakingQueue.queue: sequence of QueuePlayer
  ws,               \* per session: the websocket_endpoint task
  end_tasks,        \* per room: the task of create_task(end_game(room.id))
  gl,               \* the game_loop task
  pq,               \* the process_queue task
  sent,             \* the messages handed to send_to_client so far
  limits            \* the bounds of this run, one of Scenarios

vars == <<rooms, session_to_room, next_room_id, queue, ws, end_tasks, gl,
          pq, sent, limits>>

\* ----------------------------------------------------------------- helpers
Max(a, b) == IF a >= b THEN a ELSE b
Min(a, b) == IF a <= b THEN a ELSE b
Abs(x) == IF x < 0 THEN -x ELSE x

\* round(Scale * log10(n)) for the n the bounds reach, kept even so that the
\* 0.5 dampening of update_rope_position is exact: math.log10(1) = 0.
Log10(n) ==
  CASE n <= 1 -> 0
    [] n = 2 -> 12      \* 0.30103
    [] n = 3 -> 20      \* 0.47712
    [] n = 4 -> 24      \* 0.60206
    [] OTHER -> 28      \* 0.69897

ZeroStats ==
  [total_pulls |-> 0, unique_pullers |-> 0, engagement_rate |-> 0,
   pull_power |-> 0]

\* The "player" object of a join_queue message is the profile the client got
\* from /api/auth/callback: the Twitch user's id and the viewer count of the
\* user's stream.  User u connects as session u; its stream has
\* ViewerCountOf(u) viewers.
ViewerCountOf(u) == IF u % 2 = 1 THEN 0 ELSE MaxViewers

\* models.Player, as built by handle_websocket_message
Player(id, session_id) ==
  [id |-> id, session_id |-> session_id, viewer_count |-> ViewerCountOf(id)]

\* models.GameRoom with its defaults.  The stats dicts start empty; every
\* reader uses .get(key, 0), so the empty dict reads as ZeroStats.
GameRoom(id, player1, player2) ==
  [id |-> id, player1 |-> player1, player2 |-> player2,
   status |-> "waiting", rope_position |-> 0,
   elapsed |-> NoTime,        \* now - start_time
   ended |-> NoTime,          \* now - end_time
   winner_id |-> NoWinner, pull_history |-> <<>>,
   player1_stats |-> ZeroStats, player2_stats |-> ZeroStats]

\* ------------------------------------------------------------ room methods
StartGameAnyStatus(room) ==
  [room EXCEPT !.status = "active", !.elapsed = 0, !.rope_position = 0,
               !.player1_stats = ZeroStats, !.player2_stats = ZeroStats]

\* GameManager.start_game, after the room lookup
start_game(room) ==
  IF room.status # "waiting" THEN room
  ELSE [room EXCEPT !.status = "active", !.elapsed = 0,
                    !.rope_position = 0,
                    !.player1_stats = ZeroStats,
                    !.player2_stats = ZeroStats]

RegisterPullAnyStatus(room, player_id, username) ==
  LET pull == [age |-> 0, username |-> username, player_id |-> player_id]
      hist == Append(room.pull_history, pull)
  IN IF player_id = room.player1.id
     THEN [room EXCEPT !.pull_history = hist,
                       !.player1_stats.total_pulls = @ + 1]
     ELSE [room EXCEPT !.pull_history = hist,
                       !.player2_stats.total_pulls = @ + 1]

\* GameManager.register_pull, after the room lookup
register_pull(room, player_id, username) ==
  IF room.status # "active" THEN room
  ELSE LET pull == [age |-> 0, username |-> username, player_id |-> player_id]
           hist == Append(room.pull_history, pull)
       IN IF player_id = room.player1.id
          THEN [room EXCEPT !.pull_history = hist,
                            !.player1_stats.total_pulls = @ + 1]
          ELSE [room EXCEPT !.pull_history = hist,
                            !.player2_stats.total_pulls = @ + 1]

InWindowInclusive(p) == p.age <= window

\* recent_pulls: the pulls of the last window
InWindow(p) == p.age < window
recent_pulls(room) == SelectSeq(room.pull_history, InWindow)

\* len(set(p.username for p in recent_pulls if p.player_id == player_id))
unique_pullers(room, player_id) ==
  LET recent == recent_pulls(room)
  IN Cardinality({recent[i].username :
                    i \in {j \in DOMAIN recent : recent[j].player_id = player_id}})

\* unique / max(viewer_count, 1)
engagement(unique, viewer_count) == (unique * Scale) \div Max(viewer_count, 1)

\* engagement * base_power * math.log10(unique + 1)
pull_power(unique, viewer_count) ==
  (engagement(unique, viewer_count) * base_pull_strength * Log10(unique + 1))
     \div Scale

CalcStatsCountsRecent(room) ==
  LET p1_unique == unique_pullers(room, room.player1.id)
      p2_unique == unique_pullers(room, room.player2.id)
  IN [room EXCEPT
        !.player1_stats.total_pulls = p1_unique,
        !.player1_stats.unique_pullers = p1_unique,
        !.player1_stats.engagement_rate =
            engagement(p1_unique, room.player1.viewer_count),
        !.player2_stats.total_pulls = p2_unique,
        !.player2_stats.unique_pullers = p2_unique,
        !.player2_stats.engagement_rate =
            engagement(p2_unique, room.player2.viewer_count),
        !.player1_stats.pull_power =
            pull_power(p1_unique, room.player1.viewer_count),
        !.player2_stats.pull_power =
            pull_power(p2_unique, room.player2.viewer_count)]

\* GameManager.calculate_engagement_stats
calculate_engagement_stats(room) ==
  LET p1_unique == unique_pullers(room, room.player1.id)
      p2_unique == unique_pullers(room, room.player2.id)
  IN [room EXCEPT
        !.player1_stats.unique_pullers = p1_unique,
        !.player1_stats.engagement_rate =
            engagement(p1_unique, room.player1.viewer_count),
        !.player2_stats.unique_pullers = p2_unique,
        !.player2_stats.engagement_rate =
            engagement(p2_unique, room.player2.viewer_count),
        !.player1_stats.pull_power =
            pull_power(p1_unique, room.player1.viewer_count),
        !.player2_stats.pull_power =
            pull_power(p2_unique, room.player2.viewer_count)]

\* net_force * 0.5
Dampen(net_force) ==
  IF net_force >= 0 THEN net_force \div 2 ELSE -((-net_force) \div 2)

ClampNone(x) == x

\* max(-settings.win_threshold, min(settings.win_threshold, x))
Clamp(x) == Max(-win_threshold, Min(win_threshold, x))

\* GameManager.update_rope_position, without the create_task
update_rope_position(room) ==
  IF room.status # "active" THEN room
  ELSE LET r1 == calculate_engagement_stats(room)
           net_force == r1.player1_stats.pull_power - r1.player2_stats.pull_power
       IN [r1 EXCEPT !.rope_position = Clamp(@ + Dampen(net_force))]

\* the win condition of update_rope_position: create_task(end_game(room.id))
win_condition(room) ==
  room.status = "active" /\ Abs(room.rope_position) >= win_threshold

EndGameStrict(room) ==
  LET r1 == [room EXCEPT !.status = "finished", !.ended = 0]
  IN IF r1.rope_position < -win_threshold
       THEN [r1 EXCEPT !.winner_id = r1.player2.id]
     ELSE IF r1.rope_position > win_threshold
       THEN [r1 EXCEPT !.winner_id = r1.player1.id]
     ELSE r1

\* GameManager.end_game, from the room lookup to the sleep
end_game(room) ==
  LET r1 == [room EXCEPT !.status = "finished", !.ended = 0]
  IN IF r1.rope_position <= -win_threshold
       THEN [r1 EXCEPT !.winner_id = r1.player2.id]
     ELSE IF r1.rope_position >= win_threshold
       THEN [r1 EXCEPT !.winner_id = r1.player1.id]
     ELSE r1

\* GameManager.handle_player_disconnect, from the room lookup to end_game's
\* sleep: "await self.end_game(room_id)" runs end_game at once
handle_player_disconnect(room, session_id) ==
  LET r1 == IF room.status = "active"
            THEN [room EXCEPT
                    !.status = "abandoned",
                    !.winner_id = IF room.player1.session_id = session_id
                                  THEN room.player2.id
                                  ELSE room.player1.id]
            ELSE room
  IN end_game(r1)

\* ---------------------------------------------------------------- registry
Remove(f, keys) == [x \in DOMAIN f \ keys |-> f[x]]
Put(f, k, v) == [x \in DOMAIN f \cup {k} |-> IF x = k THEN v ELSE f[x]]

\* GameManager.get_room_by_session
get_room_by_session(session_id) ==
  IF session_id \in DOMAIN session_to_room
       /\ session_to_room[session_id] \in DOMAIN rooms
  THEN session_to_room[session_id]
  ELSE NoRoom

CleanupRoomNoGuard(rs, s2r, room_id) ==
  [rooms |-> Remove(rs, {room_id}),
   session_to_room |->
     IF room_id \in DOMAIN rs
     THEN Remove(s2r, {rs[room_id].player1.session_id,
                       rs[room_id].player2.session_id})
     ELSE s2r,
   error |-> room_id \notin DOMAIN rs]

\* GameManager.cleanup_room on the rooms rs and the session mappings s2r:
\* what it leaves of both, and whether it raises.  Each "del" is behind an
\* "in" test, so a key that is not there raises no KeyError.
cleanup_room(rs, s2r, room_id) ==
  [rooms |-> IF room_id \in DOMAIN rs THEN Remove(rs, {room_id}) ELSE rs,
   session_to_room |->
     IF room_id \in DOMAIN rs
     THEN Remove(s2r, {rs[room_id].player1.session_id,
                       rs[room_id].player2.session_id}
                        \cap DOMAIN s2r)
     ELSE s2r,
   error |-> FALSE]

CleanupSessionsFirstOnly(room_id) ==
  IF room_id \in DOMAIN rooms
  THEN Remove(session_to_room, {rooms[room_id].player1.session_id})
  ELSE session_to_room

\* GameManager.cleanup_room: the session mappings it leaves
cleanup_sessions(room_id) ==
  cleanup_room(rooms, session_to_room, room_id).session_to_room

\* GameManager.cleanup_room: the rooms it leaves
cleanup_rooms(room_id) ==
  cleanup_room(rooms, session_to_room, room_id).rooms

\* GameManager.create_room: the session mappings it leaves
create_sessions(room_id, player1, player2) ==
  Put(Put(session_to_room, player1.session_id, room_id),
      player2.session_id, room_id)

\* ------------------------------------------------------------------- queue
\* models.QueuePlayer (joined_at is never read)
QueuePlayer(player) == [player |-> player, session_id |-> player.session_id]

AddPlayerNoDedup(q, player) ==
  IF player.session_id = NoSession THEN q
  ELSE Append(q, QueuePlayer(player))

AddPlayerNoSessionCheck(q, player) ==
  IF \E i \in DOMAIN q : q[i].session_id = player.session_id THEN q
  ELSE Append(q, QueuePlayer(player))

\* MatchmakingQueue.add_player: "already in queue" and "has no session_id"
\* return without a change
add_player(q, player) ==
  IF \E i \in DOMAIN q : q[i].session_id = player.session_id THEN q
  ELSE IF player.session_id = NoSession THEN q
  ELSE Append(q, QueuePlayer(player))

\* MatchmakingQueue.remove_player
remove_player(q, session_id) ==
  LET Keep(p) == p.session_id # session_id
  IN SelectSeq(q, Keep)

FindMatchOnePop(q) ==
  IF Len(q) < 2 THEN [found |-> FALSE, queue |-> q]
  ELSE [found |-> TRUE, player1 |-> q[1].player, player2 |-> q[2].player,
        queue |-> Tail(q)]

FindMatchNewest(q) ==
  IF Len(q) < 2 THEN [found |-> FALSE, queue |-> q]
  ELSE [found |-> TRUE, player1 |-> q[Len(q) - 1].player,
        player2 |-> q[Len(q)].player,
        queue |-> SubSeq(q, 1, Len(q) - 2)]

\* MatchmakingQueue.find_match: pop(0) twice
find_match(q) ==
  IF Len(q) < 2 THEN [found |-> FALSE, queue |-> q]
  ELSE LET player1 == Head(q)
           q1 == Tail(q)
           player2 == Head(q1)
           q2 == Tail(q1)
       IN [found |-> TRUE, player1 |-> player1.player,
           player2 |-> player2.player, queue |-> q2]

\* ---------------------------------------------------------------- messages
\* main.send_to_client: the message goes to the websocket of the session.
\* log is the set of the messages sent so far; whether the websocket is
\* still there to deliver it is not recorded.
send_to_client(log, session_id, data) ==
  log \cup {[to |-> session_id, data |-> data]}

\* main.broadcast_to_room on the rooms rs: to player1 and player2 of a room
\* of the registry, nothing for a room that has left it
broadcast_to_room(log, rs, room_id, data) ==
  IF room_id \notin DOMAIN rs THEN log
  ELSE LET to1 == rs[room_id].player1.session_id
           to2 == rs[room_id].player2.session_id
           log1 == IF to1 # NoSession THEN send_to_client(log, to1, data)
                   ELSE log
       IN IF to2 # NoSession THEN send_to_client(log1, to2, data) ELSE log1

\* the "opponent" object of a match_found message; the user id stands for
\* username and channel_name
opponent(player) ==
  [username |-> player.id, viewer_count |-> player.viewer_count]

MatchDataSameOpponent(room_id, player1, player2, to) ==
  [type |-> "match_found", room_id |-> room_id,
   opponent |-> opponent(player2)]

\* process_queue: match_data as it is when it is sent to the session "to":
\* first with player2 as the opponent, for player1, then with player1
match_data(room_id, player1, player2, to) ==
  [type |-> "match_found", room_id |-> room_id,
   opponent |-> IF to = player1.session_id THEN opponent(player2)
                ELSE opponent(player1)]

\* process_queue: the game_started message
game_started(room_id) == [type |-> "game_started", room_id |-> room_id]

\* GameManager.get_game_state as game_loop sends it: of the GameState only
\* the status is kept
game_update(room) ==
  [type |-> "game_update", room_id |-> room.id, status |-> room.status]

\* ------------------------------------------------------------------- state
RECURSIVE SumLen(_, _)
SumLen(rs, ids) ==
  IF ids = {} THEN 0
  ELSE LET id == CHOOSE x \in ids : TRUE
       IN Len(rs[id].pull_history) + SumLen(rs, ids \ {id})

TotalPulls == SumLen(rooms, DOMAIN rooms)

\* the ids in S in ascending order: a dict iterates in insertion order and
\* room ids are handed out in ascending order
RECURSIVE Ascending(_)
Ascending(S) ==
  IF S = {} THEN <<>>
  ELSE LET m == CHOOSE x \in S : \A y \in S : x <= y
       IN <<m>> \o Ascending(S \ {m})

\* [r for r in self.rooms.values() if r.status == GameStatus.ACTIVE]
active_rooms == Ascending({id \in DOMAIN rooms : rooms[id].status = "active"})

WsOpen == [pc |-> "open", room |-> NoRoom, timer |-> 0, forfeit |-> FALSE]
TaskNone == [pc |-> "none", timer |-> 0]
GlSleep == [pc |-> "sleep", active_rooms |-> <<>>, i |-> 0, timer |-> 0]
PqSleep == [pc |-> "sleep", room |-> NoRoom]

Init ==
  /\ rooms = <<>>
  /\ session_to_room = <<>>
  /\ next_room_id = 1
  /\ queue = <<>>
  /\ ws = [s \in Sessions |-> WsOpen]
  /\ end_tasks = [id \in RoomIds |-> TaskNone]
  /\ gl = GlSleep
  /\ pq = PqSleep
  /\ sent = {}
  /\ limits \in Scenarios

\* ----------------------------------------------------- websocket handlers
\* ws[s].pc = "open": the websocket_endpoint task of session s is in its
\* receive loop, or the client has yet to connect; a session id connects once.

\* the add_player call of a Player
AddPlayer(player) ==
  /\ queue' = add_player(queue, player)
  /\ UNCHANGED <<rooms, session_to_room, next_room_id, ws, end_tasks, gl, pq,
                 sent, limits>>

\* handle_websocket_message, "join_queue": player.session_id = session_id
JoinQueue(s) ==
  /\ ws[s].pc = "open"
  /\ AddPlayer(Player(s, s))

\* add_player called with a Player that has no session id
AddPlayerNoSession(u) == AddPlayer(Player(u, NoSession))

\* handle_websocket_message, "leave_queue"
LeaveQueue(s) ==
  /\ ws[s].pc = "open"
  /\ queue' = remove_player(queue, s)
  /\ UNCHANGED <<rooms, session_to_room, next_room_id, ws, end_tasks, gl, pq,
                 sent, limits>>

\* websocket_endpoint on WebSocketDisconnect: handle_disconnect up to the
\* sleep of end_game (or to its end, when the session has no room)
Disconnect(s) ==
  LET id == get_room_by_session(s)
  IN /\ ws[s].pc = "open"
     /\ queue' = remove_player(queue, s)
     /\ IF id = NoRoom
        THEN /\ ws' = [ws EXCEPT ![s].pc = "closed"]
             /\ UNCHANGED rooms
        ELSE /\ rooms' = [rooms EXCEPT
                            ![id] = handle_player_disconnect(rooms[id], s)]
             /\ ws' = [ws EXCEPT ![s] =
                         [pc |-> "end_game", room |-> id, timer |-> grace,
                          forfeit |-> rooms[id].status = "active"]]
     /\ UNCHANGED <<session_to_room, next_room_id, end_tasks, gl, pq, sent,
                    limits>>

\* handle_disconnect after end_game's sleep: cleanup_room, then the handler
\* ends
DisconnectCleanup(s) ==
  /\ ws[s].pc = "end_game"
  /\ ws[s].timer = 0
  /\ session_to_room' = cleanup_sessions(ws[s].room)
  /\ rooms' = cleanup_rooms(ws[s].room)
  /\ ws' = [ws EXCEPT ![s].pc = "closed"]
  /\ UNCHANGED <<next_room_id, queue, end_tasks, gl, pq, sent, limits>>

\* handle_pull_command: register_pull(room_id, player_id, username) for the
\* room and the player a chat monitor was started for
RegisterPull(id, side, username) ==
  /\ id < next_room_id
  /\ TotalPulls < limits.pulls
  /\ IF id \notin DOMAIN rooms
     THEN UNCHANGED rooms
     ELSE LET player_id == IF side = 1 THEN rooms[id].player1.id
                           ELSE rooms[id].player2.id
          IN rooms' = [rooms EXCEPT
                         ![id] = register_pull(@, player_id, username)]
  /\ UNCHANGED <<session_to_room, next_room_id, queue, ws, end_tasks, gl, pq,
                 sent, limits>>

\* ------------------------------------------------ end_game as its own task
\* the task of create_task(end_game(room.id)) runs: end_game up to its sleep
EndTaskRun(id) ==
  /\ end_tasks[id].pc = "pending"
  /\ IF id \in DOMAIN rooms
     THEN /\ rooms' = [rooms EXCEPT ![id] = end_game(@)]
          /\ end_tasks' = [end_tasks EXCEPT
                             ![id] = [pc |-> "sleeping", timer |-> grace]]
     ELSE /\ end_tasks' = [end_tasks EXCEPT ![id].pc = "done"]
          /\ UNCHANGED rooms
  /\ UNCHANGED <<session_to_room, next_room_id, queue, ws, gl, pq, sent,
                 limits>>

\* the task after its sleep: cleanup_room
EndTaskCleanup(id) ==
  /\ end_tasks[id].pc = "sleeping"
  /\ end_tasks[id].timer = 0
  /\ session_to_room' = cleanup_sessions(id)
  /\ rooms' = cleanup_rooms(id)
  /\ end_tasks' = [end_tasks EXCEPT ![id].pc = "done"]
  /\ UNCHANGED <<next_room_id, queue, ws, gl, pq, sent, limits>>

\* --------------------------------------------------------------- game_loop
\* A task that create_task has made runs before the task that made it wakes
\* from a sleep: the event loop runs ready callbacks first in, first out.
NoPendingTask == \A id \in RoomIds : end_tasks[id].pc # "pending"

\* The for loop of game_loop from the room at g.i up to its next suspension,
\* on the rooms rs and the tasks ets.  For each room: update_rope_position
\* (with its create_task), then the time limit.  The loop holds the room
\* object; a room that left the registry is finished, nothing changes on it,
\* end_game and get_game_state find no room and the loop goes on at once.
\* The loop is suspended in the sleep of end_game (pc "end_game", at room
\* g.i), in a websocket send of the broadcast (pc "rooms", to go on with the
\* next room), or after the last room in asyncio.sleep(0.1) (pc "sleep").
\* The whole for loop is inside one try: when the work on the room at index
\* fail raises an exception (the aggregation of update_rope_position on an
\* ACTIVE room, before it assigns anything), "except Exception" logs it and
\* the loop goes to asyncio.sleep(0.1) with the rooms from g.i on left out
\* (pc "except"); fail = 0 is an iteration in which nothing raises.
RECURSIVE game_loop_rooms(_, _, _, _, _)
game_loop_rooms(rs, ets, g, log, fail) ==
  IF g.i > Len(g.active_rooms)
  THEN [rooms |-> rs, end_tasks |-> ets, gl |-> GlSleep, sent |-> log]
  ELSE
    LET id == g.active_rooms[g.i]
    IN IF id \notin DOMAIN rs
       THEN game_loop_rooms(rs, ets, [g EXCEPT !.i = @ + 1], log, fail)
       ELSE IF g.i = fail /\ rs[id].status = "active"
       THEN [rooms |-> rs, end_tasks |-> ets,
             gl |-> [g EXCEPT !.pc = "except"], sent |-> log]
       ELSE
         LET r1 == update_rope_position(rs[id])
             ets1 == IF win_condition(r1)
                     THEN [ets EXCEPT ![id] = [pc |-> "pending", timer |-> 0]]
                     ELSE ets
         IN IF r1.elapsed # NoTime /\ r1.elapsed >= game_duration
            THEN [rooms |-> [rs EXCEPT ![id] = end_game(r1)],
                  end_tasks |-> ets1,
                  gl |-> [g EXCEPT !.pc = "end_game", !.timer = grace],
                  sent |-> log]
            ELSE [rooms |-> [rs EXCEPT ![id] = r1],
                  end_tasks |-> ets1,
                  gl |-> IF g.i < Len(g.active_rooms)
                         THEN [g EXCEPT !.pc = "rooms", !.i = @ + 1]
                         ELSE GlSleep,
                  sent |-> broadcast_to_room(log, [rs EXCEPT ![id] = r1], id,
                                             game_update(r1))]

\* game_loop wakes from asyncio.sleep(0.1), after a whole iteration or after
\* one that raised, lists the active rooms and runs its for loop
GameLoopStart ==
  /\ gl.pc \in {"sleep", "except"}
  /\ NoPendingTask
  /\ \E fail \in 0..Len(active_rooms) :
     LET res == game_loop_rooms(rooms, end_tasks,
                                [pc |-> "rooms", active_rooms |-> active_rooms,
                                 i |-> 1, timer |-> 0], sent, fail)
     IN /\ rooms' = res.rooms
        /\ end_tasks' = res.end_tasks
        /\ gl' = res.gl
        /\ sent' = res.sent
  /\ UNCHANGED <<session_to_room, next_room_id, queue, ws, pq, limits>>

\* game_loop after a broadcast: the for loop goes on
GameLoopRoom ==
  /\ gl.pc = "rooms"
  /\ \E fail \in 0..Len(gl.active_rooms) :
     LET res == game_loop_rooms(rooms, end_tasks, gl, sent, fail)
     IN /\ rooms' = res.rooms
        /\ end_tasks' = res.end_tasks
        /\ gl' = res.gl
        /\ sent' = res.sent
  /\ UNCHANGED <<session_to_room, next_room_id, queue, ws, pq, limits>>

\* game_loop inside "await self.end_game(room.id)", after the sleep:
\* cleanup_room, "continue", and the for loop goes on
GameLoopCleanup ==
  /\ gl.pc = "end_game"
  /\ gl.timer = 0
  /\ NoPendingTask
  /\ session_to_room' = cleanup_sessions(gl.active_rooms[gl.i])
  /\ \E fail \in 0..Len(gl.active_rooms) :
     LET res == game_loop_rooms(cleanup_rooms(gl.active_rooms[gl.i]),
                                end_tasks,
                                [gl EXCEPT !.pc = "rooms", !.i = @ + 1], sent,
                                fail)
     IN /\ rooms' = res.rooms
        /\ end_tasks' = res.end_tasks
        /\ gl' = res.gl
        /\ sent' = res.sent
  /\ UNCHANGED <<next_room_id, queue, ws, pq, limits>>

\* ----------------------------------------------------------- process_queue
\* process_queue wakes from asyncio.sleep(1): find_match and, on a match,
\* create_room and the two match_found messages, up to asyncio.sleep(5)
ProcessQueueMatch ==
  /\ pq.pc = "sleep"
  /\ LET m == find_match(queue)
     IN IF ~m.found
        THEN UNCHANGED vars
        ELSE /\ next_room_id <= limits.rooms
             /\ queue' = m.queue
             /\ rooms' = Put(rooms, next_room_id,
                             GameRoom(next_room_id, m.player1, m.player2))
             /\ session_to_room' =
                  create_sessions(next_room_id, m.player1, m.player2)
             /\ next_room_id' = next_room_id + 1
             /\ pq' = [pc |-> "delay", room |-> next_room_id]
             /\ sent' =
                  send_to_client(
                    send_to_client(sent, m.player1.session_id,
                                   match_data(next_room_id, m.player1,
                                              m.player2,
                                              m.player1.session_id)),
                    m.player2.session_id,
                    match_data(next_room_id, m.player1, m.player2,
                               m.player2.session_id))
             /\ UNCHANGED <<ws, end_tasks, gl, limits>>

\* process_queue after asyncio.sleep(5): start_game and the game_started
\* broadcast, up to asyncio.sleep(1)
ProcessQueueStart ==
  /\ pq.pc = "delay"
  /\ rooms' = IF pq.room \in DOMAIN rooms
              THEN [rooms EXCEPT ![pq.room] = start_game(@)]
              ELSE rooms
  /\ pq' = PqSleep
  /\ sent' = broadcast_to_room(sent, rooms', pq.room, game_started(pq.room))
  /\ UNCHANGED <<session_to_room, next_room_id, queue, ws, end_tasks, gl,
                 limits>>

\* -------------------------------------------------------------------- time
Older(t, cap) == IF t = NoTime THEN NoTime ELSE Min(t + 1, cap)
Sooner(t) == Max(t - 1, 0)
OlderPull(p) == [p EXCEPT !.age = Older(@, window)]

\* one time unit passes
Tick ==
  /\ rooms' = [id \in DOMAIN rooms |->
                 [rooms[id] EXCEPT
                    !.elapsed = Older(@, game_duration),
                    !.ended = Older(@, grace),
                    !.pull_history =
                       [i \in DOMAIN @ |-> OlderPull(@[i])]]]
  /\ ws' = [s \in Sessions |-> [ws[s] EXCEPT !.timer = Sooner(@)]]
  /\ end_tasks' = [id \in RoomIds |-> [end_tasks[id] EXCEPT !.timer = Sooner(@)]]
  /\ gl' = [gl EXCEPT !.timer = Sooner(@)]
  /\ UNCHANGED <<session_to_room, next_room_id, queue, pq, sent, limits>>

\* ---------------------------------------------------------------- shutdown
\* the process is up: lifespan has not gone past its yield
Running == gl.pc # "shutdown"

\* lifespan after the yield: it stops the chat monitors and returns; the
\* rooms, the session mappings and the queue are left as they are.  The
\* background tasks, the end_game tasks and the websocket handlers end with
\* the process, wherever they are.
Shutdown ==
  /\ Running
  /\ gl' = [pc |-> "shutdown", active_rooms |-> <<>>, i |-> 0, timer |-> 0]
  /\ pq' = [pc |-> "shutdown", room |-> NoRoom]
  /\ ws' = [s \in Sessions |-> [WsOpen EXCEPT !.pc = "closed"]]
  /\ end_tasks' = [id \in RoomIds |-> [TaskNone EXCEPT !.pc = "done"]]
  /\ UNCHANGED <<rooms, session_to_room, next_room_id, queue, sent, limits>>

\* a step of a handler or task of the running process, or the shutdown
Next ==
  \/ \E s \in 1..limits.sessions : Running /\ JoinQueue(s)
  \/ \E u \in 1..limits.sessions : Running /\ AddPlayerNoSession(u)
  \/ \E s \in 1..limits.sessions : Running /\ LeaveQueue(s)
  \/ \E s \in 1..limits.sessions : Running /\ Disconnect(s)
  \/ \E s \in Sessions : Running /\ DisconnectCleanup(s)
  \/ \E id \in RoomIds, side \in {1, 2}, u \in Users :
       Running /\ RegisterPull(id, side, u)
  \/ \E id \in RoomIds : Running /\ EndTaskRun(id)
  \/ \E id \in RoomIds : Running /\ EndTaskCleanup(id)
  \/ Running /\ GameLoopStart
  \/ Running /\ GameLoopRoom
  \/ Running /\ GameLoopCleanup
  \/ Running /\ ProcessQueueMatch
  \/ Running /\ ProcessQueueStart
  \/ Running /\ Tick
  \/ Shutdown

Spec == Init /\ [][Next]_vars

\* ------------------------------------------------------------------ claims
Terminal == {"finished", "abandoned"}

\* the participant of a room that is not session_id
OtherPlayer(room, session_id) ==
  IF room.player1.session_id = session_id THEN room.player2 ELSE room.player1

\* a step of the status life cycle WAITING -> ACTIVE -> {FINISHED, ABANDONED}
StatusStep(a, b) ==
  \/ a = b
  \/ a = "waiting" /\ b = "active"
  \/ a = "active" /\ b \in Terminal

\* C1: in every step the status of every room that stays in the registry
\* either stays or moves WAITING -> ACTIVE or ACTIVE -> FINISHED/ABANDONED;
\* so a terminal status never changes and no room goes from WAITING straight
\* to a terminal status.
C1_StatusNeverRegresses ==
  [][\A id \in DOMAIN rooms \cap DOMAIN rooms' :
       StatusStep(rooms[id].status, rooms'[id].status)]_vars

\* C2: while the room of a session that disconnected during an ACTIVE game
\* is in the registry, its status is ABANDONED and its winner is the other
\* participant; this covers the state handle_player_disconnect leaves when
\* it has run end_game up to the sleep.
C2_ForfeitStaysAbandoned ==
  \A s \in Sessions :
    (ws[s].forfeit /\ ws[s].room \in DOMAIN rooms) =>
       /\ rooms[ws[s].room].status = "abandoned"
       /\ rooms[ws[s].room].winner_id = OtherPlayer(rooms[ws[s].room], s).id

\* C3: every room of the registry has a winner exactly when its status is
\* FINISHED or ABANDONED.
C3_WinnerIffTerminal ==
  \A id \in DOMAIN rooms :
    (rooms[id].winner_id # NoWinner) <=> (rooms[id].status \in Terminal)

\* C4: when the game loop finds the time limit of an ACTIVE room reached, the
\* room is finished and its winner is player1 if the rope position is
\* positive and player2 if it is negative.
C4_TimeLimitWinnerBySign ==
  [][(/\ gl.pc # "end_game"
      /\ gl'.pc = "end_game"
      /\ rooms[gl'.active_rooms[gl'.i]].status = "active")
     => LET room == rooms'[gl'.active_rooms[gl'.i]]
        IN /\ room.status = "finished"
           /\ room.rope_position > 0 => room.winner_id = room.player1.id
           /\ room.rope_position < 0 => room.winner_id = room.player2.id]_vars

\* C5: the rope position of every room lies in
\* [-win_threshold, +win_threshold].
C5_RopeWithinThreshold ==
  \A id \in DOMAIN rooms :
    /\ rooms[id].rope_position >= -win_threshold
    /\ rooms[id].rope_position <= win_threshold

\* C5, its case: a tick has moved a rope that only player1's side ever
\* pulled (so it stood at 0 or above) by more than win_threshold, and the
\* rope position is win_threshold.
C5_Witness ==
  \E id \in DOMAIN rooms :
    /\ rooms[id].player2_stats.total_pulls = 0
    /\ Dampen(rooms[id].player1_stats.pull_power
                - rooms[id].player2_stats.pull_power) > win_threshold
    /\ rooms[id].rope_position = win_threshold

\* the sessions of the two participants of a room
Participants(room) == {room.player1.session_id, room.player2.session_id}

\* the sessions that have an entry in the queue q
Queued(q) == {q[i].session_id : i \in DOMAIN q}

\* C6: no session is a participant of two different rooms of the registry.
C6_OneRoomPerSession ==
  \A id1 \in DOMAIN rooms : \A id2 \in DOMAIN rooms :
    id1 # id2 => Participants(rooms[id1]) \cap Participants(rooms[id2]) = {}

\* C7: every room id stored in session_to_room is a key of rooms.
C7_NoStaleSessionMapping ==
  \A s \in DOMAIN session_to_room : session_to_room[s] \in DOMAIN rooms

\* C7, its case: cleanup_room has removed a room while another room and its
\* session mappings are in the registry.
C7_Witness ==
  /\ \E id \in 1..(next_room_id - 1) : id \notin DOMAIN rooms
  /\ DOMAIN rooms # {}
  /\ DOMAIN session_to_room # {}

\* C8: a step that creates a room (find_match returned a pair) starts from a
\* queue of at least two entries, pairs its first entry as player1 with its
\* second as player2 and leaves the rest of the queue in order; from a queue
\* of fewer than two entries no pair is made.
C8_FindMatchFIFO ==
  [][next_room_id' # next_room_id =>
       /\ Len(queue) >= 2
       /\ rooms'[next_room_id].player1 = queue[1].player
       /\ rooms'[next_room_id].player2 = queue[2].player
       /\ queue' = SubSeq(queue, 3, Len(queue))]_vars

\* C8, its case: the second pair was made while a third entry stayed queued
\* behind it.
C8_Witness ==
  /\ pq.pc = "delay"
  /\ pq.room = 2
  /\ Len(queue) = 1
  /\ \A s \in Sessions : ws[s].pc = "open"

\* C9: the queue holds at most one entry per session id and no entry
\* without a session id; a step that makes the queue longer appends one entry
\* of a session that had none.
C9_QueueEntriesDistinct ==
  /\ [](/\ \A i \in DOMAIN queue : \A j \in DOMAIN queue :
             queue[i].session_id = queue[j].session_id => i = j
        /\ \A i \in DOMAIN queue : queue[i].session_id # NoSession)
  /\ [][Len(queue') > Len(queue) =>
          /\ Len(queue') = Len(queue) + 1
          /\ SubSeq(queue', 1, Len(queue)) = queue
          /\ queue'[Len(queue')].session_id \notin Queued(queue)]_vars

\* C9, its case: every session that can join has an entry, so every further
\* add_player call is one for a queued session or one without a session.
C9_Witness ==
  /\ Len(queue) = limits.sessions
  /\ \A s \in 1..limits.sessions : ws[s].pc = "open"

\* C10: in every step, the sessions paired into a new room were queued before
\* the step and are not queued after it, a pairing takes exactly its two
\* sessions out of the queue and nothing else, and any other step takes out
\* the entry of at most one session.
C10_QueueEntryLeavesOnce ==
  [][LET paired == UNION {Participants(rooms'[id]) :
                            id \in DOMAIN rooms' \ DOMAIN rooms}
         gone == Queued(queue) \ Queued(queue')
     IN /\ paired \subseteq Queued(queue)
        /\ paired \cap Queued(queue') = {}
        /\ paired # {} => (gone = paired /\ Cardinality(paired) = 2)
        /\ paired = {} => Cardinality(gone) <= 1]_vars

\* C10, its case: one session's entry was paired into a room, the entry of
\* another session left by remove_player (its handler has ended without a
\* room) and a further entry is queued.
C10_Witness ==
  /\ DOMAIN rooms # {}
  /\ queue # <<>>
  /\ \E s \in Sessions :
       /\ ws[s].pc = "closed"
       /\ ws[s].room = NoRoom

\* C11: end_game on a room that is already FINISHED or ABANDONED changes
\* nothing: in every step, a room that is terminal and stays in the registry
\* keeps its status and its winner, and its end timestamp is not set anew
\* (the time since it does not go back).
C11_FinishOnTerminalNoOp ==
  [][\A id \in DOMAIN rooms \cap DOMAIN rooms' :
       rooms[id].status \in Terminal =>
         /\ rooms'[id].status = rooms[id].status
         /\ rooms'[id].winner_id = rooms[id].winner_id
         /\ rooms'[id].ended >= rooms[id].ended]_vars

\* C12: a disconnect of a session whose room is not ACTIVE leaves the status,
\* the winner and the end timestamp of the room as they are.
C12_DisconnectNotActiveNoOp ==
  [][\A s \in Sessions :
       (/\ ws[s].pc = "open"
        /\ ws'[s].pc = "end_game"
        /\ rooms[ws'[s].room].status # "active")
       => LET before == rooms[ws'[s].room]
              after == rooms'[ws'[s].room]
          IN /\ after.status = before.status
             /\ after.winner_id = before.winner_id
             /\ after.ended = before.ended]_vars

\* the game_update messages sent so far that carry a terminal status of the
\* room id
TerminalSnapshots(id) ==
  {m \in sent : /\ m.data.type = "game_update"
                /\ m.data.room_id = id
                /\ m.data.status \in Terminal}

\* C13: before a room leaves the registry, a game_update snapshot with its
\* terminal status has been sent to both of its sessions.
C13_TerminalSnapshotBeforeRemoval ==
  [][\A id \in DOMAIN rooms \ DOMAIN rooms' :
       \A s \in Participants(rooms[id]) :
         \E m \in TerminalSnapshots(id) :
           m.to = s /\ m.data.status = rooms[id].status]_vars

\* the rooms an iteration of game_loop left out: listed after the room at
\* which the iteration stopped, in the registry and ACTIVE
LeftOut(g, rs) ==
  {g.active_rooms[j] : j \in (g.i + 1)..Len(g.active_rooms)}
    \cap {id \in DOMAIN rs : rs[id].status = "active"}

\* C14: an iteration of the game loop in which the work on one room raises
\* still ticks and broadcasts every other ACTIVE room of its list, so it
\* leaves none of them out, and the loop goes on with its next iteration.
C14_ErrorLeavesNoRoomOut ==
  [][(gl' # gl /\ gl'.pc = "except") => LeftOut(gl', rooms') = {}]_vars

C16_RegisterPullFrame ==
  [][/\ \A id \in DOMAIN rooms \cap DOMAIN rooms' :
          LET room == rooms[id]
              after == rooms'[id]
              n == Len(room.pull_history)
              last == after.pull_history[n + 1]
              side1 == IF last.player_id = room.player1.id THEN 1 ELSE 0
          IN /\ Len(after.pull_history) \in {n, n + 1}
             /\ Len(after.pull_history) = n + 1 =>
                  /\ room.status = "active"
                  /\ SubSeq(after.pull_history, 1, n) = room.pull_history
                  /\ last.age = 0
                  /\ after.player1_stats.total_pulls
                       = room.player1_stats.total_pulls + side1
                  /\ after.player2_stats.total_pulls
                       = room.player2_stats.total_pulls + (1 - side1)
                  /\ [after EXCEPT
                        !.pull_history = room.pull_history,
                        !.player1_stats.total_pulls
                           = room.player1_stats.total_pulls,
                        !.player2_stats.total_pulls
                           = room.player2_stats.total_pulls] = room
             /\ (Len(after.pull_history) = n \/ room.status # "active") =>
                  /\ Len(after.pull_history) = n
                  /\ after.player1_stats.total_pulls
                       = room.player1_stats.total_pulls
                  /\ after.player2_stats.total_pulls
                       = room.player2_stats.total_pulls
     /\ \A id \in DOMAIN rooms' \ DOMAIN rooms : id = next_room_id]_vars

\* C16, its case: a pull for player2 was registered in a room that has since
\* finished and is still in the registry, where the next pull changes nothing.
C16_Witness ==
  \E id \in DOMAIN rooms :
    /\ rooms[id].status = "finished"
    /\ rooms[id].player1_stats.total_pulls = 0
    /\ rooms[id].player2_stats.total_pulls = 1
    /\ Len(rooms[id].pull_history) = 1
    /\ TotalPulls < limits.pulls

\* the messages of one type sent so far for the room id
Messages(log, type, id) ==
  {m \in log : m.data.type = type /\ m.data.room_id = id}

\* both participants of the room have been sent a match_found for it
BothMatchFound(log, room) ==
  \A s \in Participants(room) :
    \E m \in Messages(log, "match_found", room.id) : m.to = s

\* C17: every room of the registry has had match_found sent to each of its
\* two sessions, and no match_found carries the profile of its recipient.  A
\* step that sends match_found sends it for a room it has just created, still
\* WAITING, to a participant and with the profile of the other participant.
\* A step that makes a room ACTIVE or sends game_started for it comes after
\* both match_found messages of that room.
C17_MatchFoundBeforeStart ==
  /\ [](/\ \A id \in DOMAIN rooms : BothMatchFound(sent, rooms[id])
        /\ \A m \in sent :
             m.data.type = "match_found" => m.data.opponent.username # m.to)
  /\ [][/\ \A m \in sent' \ sent :
             m.data.type = "match_found" =>
               /\ m.data.room_id \in DOMAIN rooms' \ DOMAIN rooms
               /\ rooms'[m.data.room_id].status = "waiting"
               /\ m.to \in Participants(rooms'[m.data.room_id])
               /\ m.data.opponent
                    = opponent(OtherPlayer(rooms'[m.data.room_id], m.to))
        /\ \A m \in sent' \ sent :
             m.data.type = "game_started" =>
               /\ m.data.room_id \in DOMAIN rooms
               /\ BothMatchFound(sent, rooms[m.data.room_id])
        /\ \A id \in DOMAIN rooms \cap DOMAIN rooms' :
             (rooms[id].status # "active" /\ rooms'[id].status = "active")
               => BothMatchFound(sent, rooms[id])]_vars

\* C17, its case: a room is ACTIVE, game_started has gone to both of its
\* sessions and exactly two match_found messages were sent for it.
C17_Witness ==
  \E id \in DOMAIN rooms :
    /\ rooms[id].status = "active"
    /\ \A s \in Participants(rooms[id]) :
         \E m \in Messages(sent, "game_started", id) : m.to = s
    /\ Cardinality(Messages(sent, "match_found", id)) = 2

\* C18: a step that sends game_started for a room is the step in which that
\* room goes from WAITING to ACTIVE.
C18_GameStartedOnlyOnStart ==
  [][\A m \in sent' \ sent :
       m.data.type = "game_started" =>
         /\ m.data.room_id \in DOMAIN rooms \cap DOMAIN rooms'
         /\ rooms[m.data.room_id].status = "waiting"
         /\ rooms'[m.data.room_id].status = "active"]_vars

\* C19: a room of the registry that is FINISHED or ABANDONED is found by its
\* id and through each of its two sessions until it is removed, and a step
\* that removes a room removes a terminal room and leaves no session mapped
\* to it.
C19_TerminalRoomKeptThenRemoved ==
  /\ [](\A id \in DOMAIN rooms :
          rooms[id].status \in Terminal =>
            \A s \in Participants(rooms[id]) : get_room_by_session(s) = id)
  /\ [][\A id \in DOMAIN rooms \ DOMAIN rooms' :
          /\ rooms[id].status \in Terminal
          /\ \A s \in DOMAIN session_to_room' : session_to_room'[s] # id]_vars

\* C20: the step in which process_queue calls start_game (it leaves its
\* sleep(5)) makes a WAITING room ACTIVE with the start timestamp now, the
\* rope at 0 and each side's stats a record of zeros, and changes nothing
\* else; when the room is not WAITING or has left the registry the step
\* changes no room.  No other step makes a room ACTIVE or sets a start
\* timestamp.
C20_StartGameFrame ==
  [][/\ (pq.pc = "delay" /\ pq'.pc = "sleep") =>
          IF pq.room \in DOMAIN rooms /\ rooms[pq.room].status = "waiting"
          THEN /\ DOMAIN rooms' = DOMAIN rooms
               /\ \A id \in DOMAIN rooms \ {pq.room} : rooms'[id] = rooms[id]
               /\ rooms'[pq.room].status = "active"
               /\ rooms'[pq.room].elapsed = 0
               /\ rooms'[pq.room].rope_position = 0
               /\ rooms'[pq.room].player1_stats
                    = [total_pulls |-> 0, unique_pullers |-> 0,
                       engagement_rate |-> 0, pull_power |-> 0]
               /\ rooms'[pq.room].player2_stats
                    = [total_pulls |-> 0, unique_pullers |-> 0,
                       engagement_rate |-> 0, pull_power |-> 0]
               /\ \A f \in {"id", "player1", "player2", "ended",
                            "winner_id", "pull_history"} :
                    rooms'[pq.room][f] = rooms[pq.room][f]
          ELSE rooms' = rooms
     /\ \A id \in DOMAIN rooms \cap DOMAIN rooms' :
          \/ /\ rooms'[id].status = "active"
             /\ rooms[id].status # "active"
          \/ /\ rooms[id].elapsed = NoTime
             /\ rooms'[id].elapsed # NoTime
          => /\ pq.pc = "delay"
             /\ pq.room = id
             /\ rooms[id].status = "waiting"]_vars

\* C20, its case: process_queue has called start_game on a room that a
\* disconnect had ended during the delay; the room is FINISHED and was never
\* started.
C20_Witness ==
  /\ pq.pc = "sleep"
  /\ \E id \in DOMAIN rooms :
       /\ rooms[id].status = "finished"
       /\ rooms[id].elapsed = NoTime

\* C21: in every state and for every room id, known or not, a second
\* cleanup_room right after a first raises no error and leaves the rooms and
\* the session mappings as the first left them; and a cleanup step of a
\* handler or task whose room has already been removed changes neither.
C21_CleanupIdempotent ==
  /\ [](\A id \in RoomIds :
          LET first == cleanup_room(rooms, session_to_room, id)
              second == cleanup_room(first.rooms, first.session_to_room, id)
          IN /\ ~first.error
             /\ ~second.error
             /\ second.rooms = first.rooms
             /\ second.session_to_room = first.session_to_room)
  /\ [][/\ \A s \in Sessions :
             (/\ ws[s].pc = "end_game"
              /\ ws'[s].pc = "closed"
              /\ ws[s].room \notin DOMAIN rooms)
             => rooms' = rooms /\ session_to_room' = session_to_room
        /\ \A id \in RoomIds :
             (/\ end_tasks[id].pc = "sleeping"
              /\ end_tasks'[id].pc = "done"
              /\ id \notin DOMAIN rooms)
             => rooms' = rooms /\ session_to_room' = session_to_room]_vars

\* C21, its case: the handlers of two sessions have both gone through
\* end_game for the same room, so cleanup_room has run twice for its id.
C21_Witness ==
  \E s1 \in Sessions : \E s2 \in Sessions :
    /\ s1 # s2
    /\ ws[s1].pc = "closed"
    /\ ws[s2].pc = "closed"
    /\ ws[s1].room # NoRoom
    /\ ws[s1].room = ws[s2].room

\* C22: once the process has shut down, the room map and the session map
\* are both empty.
C22_ShutdownEmptiesRegistry ==
  ~Running => (DOMAIN rooms = {} /\ DOMAIN session_to_room = {})

\* the room has no pull event for player_id younger than the window
NoRecentPull(room, player_id) ==
  \A i \in DOMAIN room.pull_history :
    room.pull_history[i].player_id = player_id
      => room.pull_history[i].age >= window

\* C23: a tick (update_rope_position) of any ACTIVE room of any reachable
\* state leaves a side that has no pull event inside the window with
\* unique_pullers = 0 and pull_power = 0, whatever its viewer count, and
\* leaves the rope where it was when neither side has one.
C23_NoPullsNoPower ==
  \A id \in DOMAIN rooms :
    rooms[id].status = "active" =>
      LET room == rooms[id]
          after == update_rope_position(room)
          none1 == NoRecentPull(room, room.player1.id)
          none2 == NoRecentPull(room, room.player2.id)
      IN /\ none1 => /\ after.player1_stats.unique_pullers = 0
                     /\ after.player1_stats.pull_power = 0
         /\ none2 => /\ after.player2_stats.unique_pullers = 0
                     /\ after.player2_stats.pull_power = 0
         /\ (none1 /\ none2) => after.rope_position = room.rope_position

\* C23, its case: player1, whose stream has no viewers, had a pull that moved
\* the rope; the pull has left the window and a later tick has set
\* unique_pullers and pull_power back to 0 with the rope still off centre.
C23_Witness ==
  \E id \in DOMAIN rooms :
    /\ rooms[id].status = "active"
    /\ rooms[id].player1.viewer_count = 0
    /\ rooms[id].pull_history # <<>>
    /\ NoRecentPull(rooms[id], rooms[id].player1.id)
    /\ NoRecentPull(rooms[id], rooms[id].player2.id)
    /\ rooms[id].rope_position > 0
    /\ rooms[id].player1_stats.unique_pullers = 0
    /\ rooms[id].player1_stats.pull_power = 0

\* C24: while the game loop waits in the sleep of an end_game it has called
\* for one room, no other room of the registry is ACTIVE and left without
\* its ticks and broadcasts.
C24_EndOfRoomSuspendsNoOther ==
  gl.pc = "end_game" =>
    \A id \in DOMAIN rooms :
      rooms[id].status = "active" => id = gl.active_rooms[gl.i]

\* C25: every participant of every room of the registry is mapped to that
\* room, so get_room_by_session gives the room; and a step that removes a
\* room leaves the mapping of every session that is mapped to another room.
C25_SessionResolvesToOwnRoom ==
  /\ [](\A id \in DOMAIN rooms :
          \A s \in Participants(rooms[id]) : get_room_by_session(s) = id)
  /\ [][\A id \in DOMAIN rooms \ DOMAIN rooms' :
          \A s \in DOMAIN session_to_room :
            session_to_room[s] # id =>
              /\ s \in DOMAIN session_to_room'
              /\ session_to_room'[s] = session_to_room[s]]_vars

\* C26: in every room of the registry the two total_pulls add up to the
\* length of the pull history, and a tick (calculate_engagement_stats, and
\* update_rope_position with it) of the room changes neither total_pulls nor
\* the pull history.
C26_TotalPullsMatchHistory ==
  \A id \in DOMAIN rooms :
    LET room == rooms[id]
        stats == calculate_engagement_stats(room)
        ticked == update_rope_position(room)
    IN /\ room.player1_stats.total_pulls + room.player2_stats.total_pulls
            = Len(room.pull_history)
       /\ stats.pull_history = room.pull_history
       /\ stats.player1_stats.total_pulls = room.player1_stats.total_pulls
       /\ stats.player2_stats.total_pulls = room.player2_stats.total_pulls
       /\ ticked.pull_history = room.pull_history
       /\ ticked.player1_stats.total_pulls = room.player1_stats.total_pulls
       /\ ticked.player2_stats.total_pulls = room.player2_stats.total_pulls

\* C26, its case: each side has one pull in the history, the first of them
\* has left the window, and a tick has counted the one that is still in it.
C26_Witness ==
  \E id \in DOMAIN rooms :
    /\ rooms[id].player1_stats.total_pulls = 1
    /\ rooms[id].player2_stats.total_pulls = 1
    /\ Len(rooms[id].pull_history) = 2
    /\ rooms[id].pull_history[1].age >= window
    /\ rooms[id].player1_stats.unique_pullers
         + rooms[id].player2_stats.unique_pullers = 1

====
